---- MODULE Spec2Model ----
(***************************************************************************)
(* Real-time core of the team-chat server: the socket.io connection        *)
(* gateway, the channel rooms, the message pipeline with its pairwise      *)
(* conversation find-or-create, the huddle coordinator and the reaction    *)
(* handlers, together with the client-side reaction toggle.                *)
(*                                                                         *)
(* Every handler is an async function: it runs to its next `await` in one  *)
(* step.  A storage call takes effect in the step that issues the query    *)
(* result back to the handler; the code between two awaits is one step.    *)
(* Handlers of different events, also of one connection, interleave at     *)
(* their awaits.                                                           *)
(***************************************************************************)
EXTENDS Integers, Sequences, FiniteSets, Bags, TLC

VARIABLES
    conn,          \* per connection: handshake token, state, socket.userId
    registered,    \* connections whose event handlers are registered
    rooms,         \* socket.io rooms: room key -> set of connections
    members,       \* storage: channel_members rows <<channelId, userId>>
    dms,           \* storage: direct_messages rows
    messages,      \* storage: messages rows (a deleted row stays, flagged, so that
                   \* no later message gets its id)
    status,        \* storage: users.status
    typing,        \* Redis: typing markers <<group key, userId>>, each set with a TTL
    huddles,       \* storage: huddles rows, by id
    participants,  \* storage: huddle_participants rows
    reactions,     \* storage: reactions rows
    view,          \* client: each connection's cached messages and their reactions
    tasks,         \* handler invocations in flight (a bag: equal ones are counted)
    log,           \* every emit, in order, with the connections it reached
    nops,          \* number of client events accepted so far
    checked,       \* history: outcome of each membership check of join-channel
    dropped,       \* history: <<conn, huddle>> of participants lost by disconnect
    toggles        \* history: per reaction triple, the client toggles issued and
                   \* whether the REST route ever added it

vars == <<conn, registered, rooms, members, dms, messages, status, typing, huddles,
          participants, reactions, view, tasks, log, nops, checked, dropped,
          toggles>>

(***************************************************************************)
(* Bounds of the model.                                                    *)
(***************************************************************************)
\* client events accepted in one behaviour
MaxOps == 3
\* client events accepted in one behaviour of the disconnect specification
MaxDropOps == 2
\* send-message events accepted in one behaviour of the send specification
MaxSendOps == 2
\* client events accepted in one behaviour of the typing specification
MaxTypingOps == 2
\* client events accepted in one behaviour of the reaction specification
MaxReactOps == 3
MaxPresenceOps == 1
MaxSignalOps == 3
MaxHuddleOps == 3
MaxOrderOps == 3
MaxFaultOps == 3
MaxPayloadOps == 2

Users == {"u1", "u2"}
Conns == {"c1", "c2", "c3"}
Channels == {"general"}
HuddleIds == {"h1"}
MessageIds == {1}
Emojis == {"thumbsup"}
None == "none"
\* message bodies: empty, two ordinary ones, and one over the schema's maximum
Contents == {"", "hi", "edit", "long"}
\* messageSchema: content max(2000)
MaxContentLength == 2000
\* content.length
ContentLength(content) ==
    IF content = "" THEN 0
    ELSE IF content = "long" THEN MaxContentLength + 1
    ELSE IF content = "edit" THEN 4
    ELSE 2
\* the unique key of a reactions row: <<messageId, userId, emoji>>
Triples == MessageIds \X Users \X Emojis

\* the room key `huddle:${id}`
HuddleRoom(h) == "huddle:" \o h
RoomKeys == Users \cup Channels \cup {HuddleRoom(h) : h \in HuddleIds}

(***************************************************************************)
(* Credentials.  A token is "" (absent), "bad" (malformed, forged or       *)
(* expired) or one issued by generateToken for a user.                     *)
(***************************************************************************)
Issued == [tok \in {"tok_" \o u : u \in Users} |->
              CHOOSE u \in Users : tok = "tok_" \o u]
Tokens == {"", "bad"} \cup DOMAIN Issued

\* jwt.verify under JWT_SECRET: the payload of an issued token, else a throw
verifyToken(token) ==
    IF token \in DOMAIN Issued
    THEN [ok |-> TRUE, userId |-> Issued[token]]
    ELSE [ok |-> FALSE, userId |-> None]

\* a middleware that lets a handshake without a token through
authMiddlewareNoTokenCheck(token) ==
    IF token = "" THEN [ok |-> TRUE, userId |-> None] ELSE verifyToken(token)

\* io.use(...): next() or next(new Error(...))
authMiddleware(token) ==
    IF token = ""
    THEN [ok |-> FALSE, userId |-> None]
    ELSE verifyToken(token)

(***************************************************************************)
(* socket.io rooms and emits.                                              *)
(***************************************************************************)
Live == {c \in Conns : conn[c].state = "connected"}
UserOf(c) == conn[c].userId

SocketJoin(rs, c, key) ==
    IF key \in DOMAIN rs THEN [rs EXCEPT ![key] = @ \cup {c}] ELSE rs
SocketLeave(rs, c, key) ==
    IF key \in DOMAIN rs THEN [rs EXCEPT ![key] = @ \ {c}] ELSE rs
InRoom(key) == IF key \in DOMAIN rooms THEN rooms[key] ELSE {}

\* io.emit(...)
IoEmit == Live
\* io.to(room).emit(...) sent to every connection instead of the room
IoToEveryone(key) == IoEmit
\* io.to(room).emit(...)
IoTo(key) == InRoom(key) \cap Live
\* socket.to(room).emit(...) that does not skip the sender
SocketToWithSender(c, key) == IoTo(key)
\* socket.to(room).emit(...)
SocketTo(c, key) == (InRoom(key) \ {c}) \cap Live
\* socket.broadcast.emit(...)
SocketBroadcast(c) == Live \ {c}
\* socket.emit(...)
SocketEmit(c) == {c} \cap Live

Event(type, to, key, user, n, roster) ==
    [type |-> type, to |-> to, key |-> key, user |-> user, n |-> n,
     roster |-> roster, target |-> None]
ErrorEvent(c, message) == Event("error", SocketEmit(c), message, UserOf(c), 0, {})

\* a handler invocation: its event, its socket, where it stands, and its data
Task(kind, c, pc, key, aux, n) ==
    [kind |-> kind, conn |-> c, pc |-> pc, key |-> key, aux |-> aux, n |-> n,
     body |-> None]
Running == BagToSet(tasks)
Start(t) == tasks (+) SetToBag({t})
Done(t) == tasks (-) SetToBag({t})
Goto(t, pc) == Done(t) (+) SetToBag({[t EXCEPT !.pc = pc]})
GotoWith(t, pc, n) == Done(t) (+) SetToBag({[t EXCEPT !.pc = pc, !.n = n]})
InFlight(kind) == {t \in Running : t.kind = kind}

\* a connected socket with its handlers registered may send an event
CanSend(c) == c \in registered /\ conn[c].state = "connected"

\* typingTimeoutRef of the message input: whether a timeout is pending, and the
\* isTyping value its callback closed over
NoTimeout == [set |-> FALSE, isTyping |-> FALSE]

Init ==
    /\ conn = [c \in Conns |-> [token |-> "", state |-> "new", userId |-> None]]
    /\ registered = {}
    /\ rooms = [k \in RoomKeys |-> {}]
    /\ members = {}
    /\ dms = {}
    /\ messages = {}
    /\ status = [u \in Users |-> "offline"]
    /\ typing = {}
    /\ huddles = [h \in HuddleIds |-> [status |-> None, creatorId |-> None]]
    /\ participants = {}
    /\ reactions = {}
    /\ view = [c \in Conns |->
                 [msgs |-> {}, reacts |-> [x \in Triples |-> 0],
                  input |-> [message |-> FALSE, isTyping |-> FALSE,
                             timeout |-> NoTimeout, emitted |-> None]]]
    /\ tasks = EmptyBag
    /\ log = <<>>
    /\ nops = 0
    /\ checked = {}
    /\ dropped = {}
    /\ toggles = [x \in Triples |-> [n |-> 0, rest |-> FALSE]]

storageVars == <<members, dms, messages, status, typing, huddles, participants,
                 reactions>>
historyVars == <<checked, dropped, toggles>>

(***************************************************************************)
(* Connection gateway.                                                     *)
(***************************************************************************)
\* handshake: the middleware, then io.on('connection')
Handshake(c, token) ==
    /\ conn[c].state = "new"
    /\ LET r == authMiddleware(token) IN
       IF r.ok
       THEN /\ conn' = [conn EXCEPT ![c] =
                           [token |-> token, state |-> "connected", userId |-> r.userId]]
            /\ rooms' = SocketJoin(rooms, c, r.userId)
            /\ registered' = registered \cup {c}
       ELSE /\ conn' = [conn EXCEPT ![c] =
                           [token |-> token, state |-> "refused", userId |-> None]]
            /\ UNCHANGED <<rooms, registered>>
    /\ UNCHANGED <<storageVars, view, tasks, log, nops, historyVars>>

\* a row of huddle_participants without a leave timestamp
\* a user's participant row of a huddle (the first one, id 1), active or left
ActiveRow(h, u) == [huddleId |-> h, userId |-> u, left |-> FALSE, id |-> 1]
LeftRow(h, u) == [huddleId |-> h, userId |-> u, left |-> TRUE, id |-> 1]
ActiveUsers(h) == {p.userId : p \in {q \in participants : q.huddleId = h /\ ~q.left}}

\* the socket closes (client close or network loss): socket.io takes it out of
\* every room, then the 'disconnect' handlers run
Disconnect(c) ==
    /\ conn[c].state = "connected"
    /\ conn' = [conn EXCEPT ![c].state = "closed"]
    /\ rooms' = [k \in DOMAIN rooms |-> rooms[k] \ {c}]
    /\ tasks' = Start(Task("disconnect", c, "update", None, None, 0))
    /\ dropped' = dropped \cup
           {<<c, h>> : h \in {x \in HuddleIds :
                                 /\ c \in rooms[HuddleRoom(x)]
                                 /\ UserOf(c) \in ActiveUsers(x)}}
    /\ UNCHANGED <<registered, storageVars, view, log, nops, checked, toggles>>

\* presenceHandlers 'disconnect': prisma.user.update({status: 'offline'})
DisconnectUpdate(t) ==
    /\ t.kind = "disconnect" /\ t.pc = "update"
    /\ status' = [status EXCEPT ![UserOf(t.conn)] = "offline"]
    /\ tasks' = Goto(t, "emit")
    /\ UNCHANGED <<conn, registered, rooms, members, dms, messages, typing, huddles,
                   participants, reactions, view, log, nops, historyVars>>

\* presenceHandlers 'disconnect': socket.broadcast.emit('user-status-changed')
DisconnectEmit(t) ==
    /\ t.kind = "disconnect" /\ t.pc = "emit"
    /\ log' = Append(log, Event("user-status-changed", SocketBroadcast(t.conn),
                                "offline", UserOf(t.conn), 0, {}))
    /\ tasks' = Done(t)
    /\ UNCHANGED <<conn, registered, rooms, storageVars, view, nops, historyVars>>

(***************************************************************************)
(* Presence: users.status, written by the REST login, by update-status and *)
(* by the 'disconnect' handler above.  presenceHandlers also registers a   *)
(* handler for 'connect'; socket.io raises no such event on a server-side  *)
(* socket and a client cannot emit that reserved name, so it never runs.   *)
(***************************************************************************)
Statuses == {"online", "away", "offline"}
\* what an update-status payload may carry: data.status is typed in the source
\* only, so any string arrives
StatusInputs == Statuses \cup {"busy"}

\* REST login: prisma.user.update({status: 'online'}); nothing is emitted
Login(u) ==
    /\ status[u] # "online"
    /\ status' = [status EXCEPT ![u] = "online"]
    /\ UNCHANGED <<conn, registered, rooms, members, dms, messages, typing, huddles,
                   participants, reactions, view, tasks, log, nops, historyVars>>

\* socket.on('update-status'): the handler starts and awaits user.update
UpdateStatus(c, st) ==
    /\ CanSend(c)
    /\ tasks' = Start(Task("update-status", c, "update", st, None, 0))
    /\ nops' = nops + 1
    /\ UNCHANGED <<conn, registered, rooms, storageVars, view, log, historyVars>>

\* update-status: prisma.user.update({status: data.status})
StatusUpdate(t) ==
    /\ t.kind = "update-status" /\ t.pc = "update"
    /\ status' = [status EXCEPT ![UserOf(t.conn)] = t.key]
    /\ tasks' = Goto(t, "emit")
    /\ UNCHANGED <<conn, registered, rooms, members, dms, messages, typing, huddles,
                   participants, reactions, view, log, nops, historyVars>>

\* update-status: socket.broadcast.emit('user-status-changed')
StatusEmit(t) ==
    /\ t.kind = "update-status" /\ t.pc = "emit"
    /\ log' = Append(log, Event("user-status-changed", SocketBroadcast(t.conn),
                                t.key, UserOf(t.conn), 0, {}))
    /\ tasks' = Done(t)
    /\ UNCHANGED <<conn, registered, rooms, storageVars, view, nops, historyVars>>

(***************************************************************************)
(* Channel membership in storage and the channel rooms.                    *)
(***************************************************************************)
ChannelExists(ch) == \E u \in Users : <<ch, u>> \in members

\* REST createChannel: the channel row with its creator as first member
createChannel(u, ch) ==
    /\ ~ChannelExists(ch)
    /\ members' = members \cup {<<ch, u>>}
    /\ UNCHANGED <<conn, registered, rooms, dms, messages, status, typing, huddles,
                   participants, reactions, view, tasks, log, nops, historyVars>>

\* a membership check that lets everyone in
canUserAccessChannelAlways(userId, channelId) == TRUE

\* MessageService.canUserAccessChannel: channelMember.findUnique, !!membership
canUserAccessChannel(userId, channelId) == <<channelId, userId>> \in members

\* socket.on('join-channel'): the handler starts and awaits the membership check
JoinChannel(c, key) ==
    /\ CanSend(c)
    /\ tasks' = Start(Task("join-channel", c, "check", key, None, 0))
    /\ nops' = nops + 1
    /\ UNCHANGED <<conn, registered, rooms, storageVars, view, log, historyVars>>

\* the membership query answers
JoinChannelCheck(t) ==
    /\ t.kind = "join-channel" /\ t.pc = "check"
    /\ LET hasAccess == canUserAccessChannel(UserOf(t.conn), t.key) IN
       tasks' = GotoWith(t, "join", IF hasAccess THEN 1 ELSE 0)
    /\ checked' = checked \cup
           {<<t.conn, t.key, <<t.key, UserOf(t.conn)>> \in members>>}
    /\ UNCHANGED <<conn, registered, rooms, storageVars, view, log, nops,
                   dropped, toggles>>

\* if (hasAccess) socket.join(channelId); nothing is emitted otherwise
JoinChannelJoin(t) ==
    /\ t.kind = "join-channel" /\ t.pc = "join"
    /\ rooms' = IF t.n = 1 THEN SocketJoin(rooms, t.conn, t.key) ELSE rooms
    /\ tasks' = Done(t)
    /\ UNCHANGED <<conn, registered, storageVars, view, log, nops, historyVars>>

\* socket.on('leave-channel'): synchronous socket.leave(channelId)
LeaveChannel(c, key) ==
    /\ CanSend(c)
    /\ rooms' = SocketLeave(rooms, c, key)
    /\ nops' = nops + 1
    /\ UNCHANGED <<conn, registered, storageVars, view, tasks, log, historyVars>>

(***************************************************************************)
(* Message pipeline: send-message and MessageService.createMessage.        *)
(***************************************************************************)
NextId(rows) == Cardinality(rows) + 1
\* the messages rows that exist
Stored == {r \in messages : ~r.deleted}
MessageExists(m) == \E r \in Stored : r.id = m

\* directMessage.findFirst with the OR of both orders
MatchingDms(a, b) ==
    {d \in dms : \/ (d.user1Id = a /\ d.user2Id = b)
                 \/ (d.user1Id = b /\ d.user2Id = a)}

\* socket.on('send-message'): createMessage starts; with dmUserId it awaits findFirst
SendMessage(c, channelId, dmUserId, content) ==
    /\ CanSend(c)
    /\ tasks' = Start([Task("send-message", c,
                             IF dmUserId # None THEN "find" ELSE "createMsg",
                             channelId, dmUserId, 0) EXCEPT !.body = content])
    /\ nops' = nops + 1
    /\ UNCHANGED <<conn, registered, rooms, storageVars, view, log, historyVars>>

\* findFirst answers: an existing conversation (any one that matches) or null
SendFind(t) ==
    /\ t.kind = "send-message" /\ t.pc = "find"
    /\ LET found == MatchingDms(UserOf(t.conn), t.aux) IN
       IF found = {}
       THEN tasks' = Goto(t, "createDm")
       ELSE \E d \in found : tasks' = GotoWith(t, "createMsg", d.id)
    /\ UNCHANGED <<conn, registered, rooms, storageVars, view, log, nops, historyVars>>

\* directMessage.create under @@unique([user1Id, user2Id]); a violation throws,
\* createMessage rethrows and the handler emits 'error' to the socket
SendCreateDm(t) ==
    /\ t.kind = "send-message" /\ t.pc = "createDm"
    /\ LET a == UserOf(t.conn)
           b == t.aux
       IN IF \E d \in dms : d.user1Id = a /\ d.user2Id = b
          THEN /\ log' = Append(log, ErrorEvent(t.conn, "Failed to send message"))
               /\ tasks' = Done(t)
               /\ UNCHANGED dms
          ELSE /\ dms' = dms \cup {[id |-> NextId(dms), user1Id |-> a, user2Id |-> b]}
               /\ tasks' = GotoWith(t, "createMsg", NextId(dms))
               /\ UNCHANGED log
    /\ UNCHANGED <<conn, registered, rooms, members, messages, status, typing, huddles,
                   participants, reactions, view, nops, historyVars>>

\* message.create; the channel relation makes an unknown channelId throw
SendCreateMsg(t) ==
    /\ t.kind = "send-message" /\ t.pc = "createMsg"
    /\ IF t.key # None /\ ~ChannelExists(t.key)
       THEN /\ log' = Append(log, ErrorEvent(t.conn, "Failed to send message"))
            /\ tasks' = Done(t)
            /\ UNCHANGED messages
       ELSE /\ messages' = messages \cup
                   {[id |-> NextId(messages), userId |-> UserOf(t.conn),
                     content |-> t.body, edited |-> FALSE, deleted |-> FALSE,
                     channelId |-> t.key, dmId |-> t.n]}
            /\ tasks' = GotoWith(t, "emit", NextId(messages))
            /\ UNCHANGED log
    /\ UNCHANGED <<conn, registered, rooms, members, dms, status, typing, huddles,
                   participants, reactions, view, nops, historyVars>>

\* use-messages handleNewMessage: the message joins the cached list once
handleNewMessage(v, id) == [v EXCEPT !.msgs = @ \cup {id}]

\* the connections the 'new-message' of a send reaches
NewMessageTo(t) ==
    IF t.key # None THEN IoTo(t.key)
    ELSE IF t.aux # None THEN IoTo(UserOf(t.conn)) \cup IoTo(t.aux)
    ELSE {}

\* the fan-out of 'new-message'
SendEmit(t) ==
    /\ t.kind = "send-message" /\ t.pc = "emit"
    /\ LET u == UserOf(t.conn) IN
       log' = IF t.key # None
              THEN Append(log, Event("new-message", IoTo(t.key), t.key, u, t.n, {}))
              ELSE IF t.aux # None
              THEN log \o <<Event("new-message", IoTo(u), u, u, t.n, {}),
                            Event("new-message", IoTo(t.aux), t.aux, u, t.n, {})>>
              ELSE log
    /\ view' = [c \in Conns |->
                   IF c \in NewMessageTo(t) THEN handleNewMessage(view[c], t.n)
                   ELSE view[c]]
    /\ tasks' = Done(t)
    /\ UNCHANGED <<conn, registered, rooms, storageVars, nops, historyVars>>

(***************************************************************************)
(* Editing and deleting: update-message, delete-message and                *)
(* MessageService.updateMessage / deleteMessage.                           *)
(***************************************************************************)
MessageRow(m) == CHOOSE r \in Stored : r.id = m

\* a check that lets anyone who names an existing message through
isAuthorAnyone(m, userId) == MessageExists(m)

\* !message || message.userId !== userId, negated
isAuthor(m, userId) == MessageExists(m) /\ MessageRow(m).userId = userId

\* socket.on('update-message'): updateMessage starts and awaits message.findUnique
UpdateMessage(c, m, content) ==
    /\ CanSend(c)
    /\ tasks' = Start([Task("update-message", c, "find", None, None, m)
                          EXCEPT !.body = content])
    /\ nops' = nops + 1
    /\ UNCHANGED <<conn, registered, rooms, storageVars, view, log, historyVars>>

\* updateMessage: findUnique answers; a missing message or another author's
\* throws, and the handler emits 'error'
UpdateFind(t) ==
    /\ t.kind = "update-message" /\ t.pc = "find"
    /\ IF isAuthor(t.n, UserOf(t.conn))
       THEN /\ tasks' = Goto(t, "write")
            /\ UNCHANGED log
       ELSE /\ log' = Append(log, ErrorEvent(t.conn, "Failed to update message"))
            /\ tasks' = Done(t)
    /\ UNCHANGED <<conn, registered, rooms, storageVars, view, nops, historyVars>>

\* updateMessage: message.update({content, edited: true}); a row deleted since
\* the lookup makes it throw
UpdateWrite(t) ==
    /\ t.kind = "update-message" /\ t.pc = "write"
    /\ IF MessageExists(t.n)
       THEN LET old == MessageRow(t.n) IN
            /\ messages' = (messages \ {old}) \cup
                   {[old EXCEPT !.content = t.body, !.edited = TRUE]}
            /\ tasks' = Done(t) (+) SetToBag({[t EXCEPT !.pc = "emit",
                                                        !.key = old.channelId,
                                                        !.aux = old.dmId]})
            /\ UNCHANGED log
       ELSE /\ log' = Append(log, ErrorEvent(t.conn, "Failed to update message"))
            /\ tasks' = Done(t)
            /\ UNCHANGED messages
    /\ UNCHANGED <<conn, registered, rooms, members, dms, status, typing, huddles,
                   participants, reactions, view, nops, historyVars>>

\* update-message after updateMessage returned: a channel message goes to the
\* channel's room; for a direct message getDMMessages is awaited first
UpdateEmit(t) ==
    /\ t.kind = "update-message" /\ t.pc = "emit"
    /\ IF t.key # None
       THEN /\ log' = Append(log, Event("message-updated", IoTo(t.key), t.key,
                                        UserOf(t.conn), t.n, {}))
            /\ tasks' = Done(t)
       ELSE IF t.aux # 0
       THEN /\ tasks' = Goto(t, "dm")
            /\ UNCHANGED log
       ELSE /\ tasks' = Done(t)
            /\ UNCHANGED log
    /\ UNCHANGED <<conn, registered, rooms, storageVars, view, nops, historyVars>>

\* update-message of a direct message, after getDMMessages answered:
\* io.to(socket.userId).emit('message-updated')
UpdateDmEmit(t) ==
    /\ t.kind = "update-message" /\ t.pc = "dm"
    /\ log' = Append(log, Event("message-updated", IoTo(UserOf(t.conn)),
                                UserOf(t.conn), UserOf(t.conn), t.n, {}))
    /\ tasks' = Done(t)
    /\ UNCHANGED <<conn, registered, rooms, storageVars, view, nops, historyVars>>

\* socket.on('delete-message'): deleteMessage starts and awaits message.findUnique
DeleteMessage(c, m) ==
    /\ CanSend(c)
    /\ tasks' = Start(Task("delete-message", c, "find", None, None, m))
    /\ nops' = nops + 1
    /\ UNCHANGED <<conn, registered, rooms, storageVars, view, log, historyVars>>

\* deleteMessage: findUnique answers; a missing message or another author's throws
DeleteFind(t) ==
    /\ t.kind = "delete-message" /\ t.pc = "find"
    /\ IF isAuthor(t.n, UserOf(t.conn))
       THEN /\ tasks' = Goto(t, "write")
            /\ UNCHANGED log
       ELSE /\ log' = Append(log, ErrorEvent(t.conn, "Failed to delete message"))
            /\ tasks' = Done(t)
    /\ UNCHANGED <<conn, registered, rooms, storageVars, view, nops, historyVars>>

\* deleteMessage: message.delete; it throws for a row deleted since the lookup
\* and for one that reactions rows still reference
DeleteWrite(t) ==
    /\ t.kind = "delete-message" /\ t.pc = "write"
    /\ IF MessageExists(t.n) /\ ~\E r \in reactions : r.messageId = t.n
       THEN LET old == MessageRow(t.n) IN
            /\ messages' = (messages \ {old}) \cup {[old EXCEPT !.deleted = TRUE]}
            /\ tasks' = Goto(t, "emit")
            /\ UNCHANGED log
       ELSE /\ log' = Append(log, ErrorEvent(t.conn, "Failed to delete message"))
            /\ tasks' = Done(t)
            /\ UNCHANGED messages
    /\ UNCHANGED <<conn, registered, rooms, members, dms, status, typing, huddles,
                   participants, reactions, view, nops, historyVars>>

\* delete-message after deleteMessage returned: io.emit('message-deleted')
DeleteEmit(t) ==
    /\ t.kind = "delete-message" /\ t.pc = "emit"
    /\ log' = Append(log, Event("message-deleted", IoEmit, None, UserOf(t.conn), t.n, {}))
    /\ tasks' = Done(t)
    /\ UNCHANGED <<conn, registered, rooms, storageVars, view, nops, historyVars>>

(***************************************************************************)
(* Reactions: the add-reaction and remove-reaction handlers, the REST      *)
(* route, and the client's cached copy with its toggle button.             *)
(***************************************************************************)
ReactionKey(r) == <<r.messageId, r.userId, r.emoji>>
ReactionRows(x) == {r \in reactions : ReactionKey(r) = x}

\* REST GET /api/messages/channels/:id as the useMessages query runs it: the
\* member's cache becomes the stored messages of the channel with their reactions
ClientFetch(c, ch) ==
    /\ conn[c].state = "connected"
    /\ canUserAccessChannel(UserOf(c), ch)
    /\ LET ids == {r.id : r \in {q \in Stored : q.channelId = ch}} IN
       view' = [view EXCEPT
                   ![c].msgs = ids,
                   ![c].reacts = [x \in Triples |->
                                     IF x[1] \in ids THEN Cardinality(ReactionRows(x)) ELSE 0]]
    /\ UNCHANGED <<conn, registered, rooms, storageVars, tasks, log, nops, historyVars>>

\* use-messages handleReactionAdded: the reaction is appended to the cached message
handleReactionAdded(v, x) ==
    IF x[1] \in v.msgs THEN [v EXCEPT !.reacts[x] = @ + 1] ELSE v

\* use-messages handleReactionRemoved: the user's reactions with the emoji are filtered out
handleReactionRemoved(v, x) ==
    IF x[1] \in v.msgs THEN [v EXCEPT !.reacts[x] = 0] ELSE v

\* a reactions table without its unique index
reactionUniqueOff(rows, x) == TRUE

\* @@unique([messageId, userId, emoji]): the index admits a new row with key x
reactionUnique(rows, x) == \A r \in rows : ReactionKey(r) # x

\* MessageService.addReaction, the create arm of the upsert: a row with a fresh id
addReaction(rows, x) ==
    rows \cup {[id |-> CHOOSE i \in 1..(Cardinality(rows) + 1) : \A r \in rows : r.id # i,
                messageId |-> x[1], userId |-> x[2], emoji |-> x[3]]}

\* MessageService.removeReaction: delete by (messageId, userId, emoji)
removeReaction(rows, x) == {r \in rows : ReactionKey(r) # x}

\* REST POST /api/messages/:messageId/reactions: addReaction, nothing is emitted
RestAddReaction(u, m, e) ==
    /\ MessageExists(m)
    /\ ReactionRows(<<m, u, e>>) = {}
    /\ reactionUnique(reactions, <<m, u, e>>)
    /\ reactions' = addReaction(reactions, <<m, u, e>>)
    /\ toggles' = [toggles EXCEPT ![<<m, u, e>>].rest = TRUE]
    /\ UNCHANGED <<conn, registered, rooms, members, dms, messages, status, typing, huddles,
                   participants, view, tasks, log, nops, checked, dropped>>

\* message-item handleReactionToggle, reached through the button of an emoji
\* that the cached message already carries: the cached copy decides whether
\* 'remove-reaction' or 'add-reaction' is sent
Toggle(c, m, e) ==
    /\ CanSend(c)
    /\ m \in view[c].msgs
    /\ \E u \in Users : view[c].reacts[<<m, u, e>>] > 0
    /\ LET userReacted == view[c].reacts[<<m, UserOf(c), e>>] > 0 IN
       tasks' = Start(Task(IF userReacted THEN "remove-reaction" ELSE "add-reaction",
                           c, "db", e, None, m))
    /\ toggles' = [toggles EXCEPT ![<<m, UserOf(c), e>>].n = @ + 1]
    /\ nops' = nops + 1
    /\ UNCHANGED <<conn, registered, rooms, storageVars, view, log, checked, dropped>>

\* addReaction returns the reaction whichever arm of the upsert ran; the arm
\* is kept with the request, the handler emits in both cases
UpsertReturns(t, arm) == Done(t) (+) SetToBag({[t EXCEPT !.pc = "emit", !.aux = arm]})

\* add-reaction: the upsert looks the row up; with the row there its update
\* arm ({}) changes nothing, without it the create arm follows
ReactionAdd(t) ==
    /\ t.kind = "add-reaction" /\ t.pc = "db"
    /\ tasks' = IF ReactionRows(<<t.n, UserOf(t.conn), t.key>>) # {}
                THEN UpsertReturns(t, "updated") ELSE Goto(t, "create")
    /\ UNCHANGED <<conn, registered, rooms, storageVars, view, log, nops, historyVars>>

\* add-reaction: the create arm of the upsert.  An unknown message violates the
\* relation: the service rethrows and the handler emits 'error'.  A row that
\* appeared since the lookup violates the unique index: depending on how the
\* client library runs the upsert this throws too, or falls to the update arm
ReactionAddCreate(t) ==
    /\ t.kind = "add-reaction" /\ t.pc = "create"
    /\ LET x == <<t.n, UserOf(t.conn), t.key>> IN
       IF ~MessageExists(t.n)
       THEN /\ log' = Append(log, ErrorEvent(t.conn, "Failed to add reaction"))
            /\ tasks' = Done(t)
            /\ UNCHANGED reactions
       ELSE IF ~reactionUnique(reactions, x)
       THEN /\ \/ /\ log' = Append(log, ErrorEvent(t.conn, "Failed to add reaction"))
                  /\ tasks' = Done(t)
               \/ /\ tasks' = UpsertReturns(t, "updated")
                  /\ UNCHANGED log
            /\ UNCHANGED reactions
       ELSE /\ reactions' = addReaction(reactions, x)
            /\ tasks' = UpsertReturns(t, "created")
            /\ UNCHANGED log
    /\ UNCHANGED <<conn, registered, rooms, members, dms, messages, status, typing, huddles,
                   participants, view, nops, historyVars>>

\* add-reaction: io.emit('reaction-added')
ReactionAddEmit(t) ==
    /\ t.kind = "add-reaction" /\ t.pc = "emit"
    /\ log' = Append(log, Event("reaction-added", IoEmit, t.key, UserOf(t.conn), t.n, {}))
    /\ view' = [c \in Conns |->
                   IF c \in IoEmit
                   THEN handleReactionAdded(view[c], <<t.n, UserOf(t.conn), t.key>>)
                   ELSE view[c]]
    /\ tasks' = Done(t)
    /\ UNCHANGED <<conn, registered, rooms, storageVars, nops, historyVars>>

\* remove-reaction: the delete answers; without the row it throws and the
\* handler emits 'error'
ReactionRemove(t) ==
    /\ t.kind = "remove-reaction" /\ t.pc = "db"
    /\ LET x == <<t.n, UserOf(t.conn), t.key>> IN
       IF ReactionRows(x) # {}
       THEN /\ reactions' = removeReaction(reactions, x)
            /\ tasks' = Goto(t, "emit")
            /\ UNCHANGED log
       ELSE /\ log' = Append(log, ErrorEvent(t.conn, "Failed to remove reaction"))
            /\ tasks' = Done(t)
            /\ UNCHANGED reactions
    /\ UNCHANGED <<conn, registered, rooms, members, dms, messages, status, typing, huddles,
                   participants, view, nops, historyVars>>

\* remove-reaction: io.emit('reaction-removed')
ReactionRemoveEmit(t) ==
    /\ t.kind = "remove-reaction" /\ t.pc = "emit"
    /\ log' = Append(log, Event("reaction-removed", IoEmit, t.key, UserOf(t.conn), t.n, {}))
    /\ view' = [c \in Conns |->
                   IF c \in IoEmit
                   THEN handleReactionRemoved(view[c], <<t.n, UserOf(t.conn), t.key>>)
                   ELSE view[c]]
    /\ tasks' = Done(t)
    /\ UNCHANGED <<conn, registered, rooms, storageVars, nops, historyVars>>

(***************************************************************************)
(* Typing indicators: the typing-start and typing-stop handlers, and the   *)
(* Redis typing markers of RedisService.                                   *)
(***************************************************************************)
\* the Redis key prefix of a group's typing markers
TypingKey(channelId, dmUserId) ==
    IF channelId # None THEN "typing:channel:" \o channelId
    ELSE "typing:dm:" \o dmUserId

\* RedisService.setUserTyping: setEx of the marker with a 10 s TTL (no socket
\* handler calls it)
setUserTyping(store, userId, channelId, dmUserId) ==
    store \cup {<<TypingKey(channelId, dmUserId), userId>>}

\* RedisService.removeUserTyping: del of the marker (no socket handler calls it)
removeUserTyping(store, userId, channelId, dmUserId) ==
    store \ {<<TypingKey(channelId, dmUserId), userId>>}

\* the room a typing event is relayed to: the channel's, else the other
\* user's personal room, else none
TypingRoom(channelId, dmUserId) ==
    IF channelId # None THEN channelId ELSE dmUserId

\* socket.on('typing-start'): a synchronous relay to the room, sender excluded
TypingStart(c, channelId, dmUserId) ==
    /\ CanSend(c)
    /\ log' = IF TypingRoom(channelId, dmUserId) # None
              THEN Append(log, Event("user-typing-start",
                                     SocketTo(c, TypingRoom(channelId, dmUserId)),
                                     TypingRoom(channelId, dmUserId), UserOf(c), 0, {}))
              ELSE log
    /\ nops' = nops + 1
    /\ UNCHANGED <<conn, registered, rooms, storageVars, view, tasks, historyVars>>

\* socket.on('typing-stop'): a synchronous relay to the room, sender excluded
TypingStop(c, channelId, dmUserId) ==
    /\ CanSend(c)
    /\ log' = IF TypingRoom(channelId, dmUserId) # None
              THEN Append(log, Event("user-typing-stop",
                                     SocketTo(c, TypingRoom(channelId, dmUserId)),
                                     TypingRoom(channelId, dmUserId), UserOf(c), 0, {}))
              ELSE log
    /\ nops' = nops + 1
    /\ UNCHANGED <<conn, registered, rooms, storageVars, view, tasks, historyVars>>

(***************************************************************************)
(* The client's MessageInput component (message-input.tsx).  input.message *)
(* is whether the text box holds text, input.isTyping the component state, *)
(* input.timeout the pending 2 s timeout, input.emitted the last typing    *)
(* event the component emitted.  handleTyping is a useCallback over        *)
(* isTyping, so the timeout callback it creates sees the isTyping of the   *)
(* render in which the keystroke happened.                                 *)
(***************************************************************************)
\* handleInputChange: setMessage, then handleTyping
handleInputChange(c) ==
    /\ CanSend(c)
    /\ LET in == view[c].input IN
       view' = [view EXCEPT ![c].input =
                   [message |-> TRUE,
                    isTyping |-> TRUE,
                    timeout |-> [set |-> TRUE, isTyping |-> in.isTyping],
                    emitted |-> IF ~in.isTyping THEN "typing-start" ELSE in.emitted]]
    /\ UNCHANGED <<conn, registered, rooms, storageVars, tasks, log, nops, historyVars>>

\* the setTimeout callback of handleTyping runs after 2000 ms
TypingTimeout(c) ==
    /\ view[c].input.timeout.set
    /\ LET in == view[c].input IN
       view' = [view EXCEPT ![c].input =
                   IF in.timeout.isTyping /\ conn[c].state = "connected"
                   THEN [in EXCEPT !.isTyping = FALSE, !.emitted = "typing-stop",
                                   !.timeout = NoTimeout]
                   ELSE [in EXCEPT !.timeout = NoTimeout]]
    /\ UNCHANGED <<conn, registered, rooms, storageVars, tasks, log, nops, historyVars>>

\* sendMessage (submit or Enter) with text in the box
sendMessage(c) ==
    /\ CanSend(c)
    /\ view[c].input.message
    /\ LET in == view[c].input IN
       view' = [view EXCEPT ![c].input =
                   IF in.isTyping
                   THEN [message |-> FALSE, isTyping |-> FALSE, timeout |-> NoTimeout,
                         emitted |-> "typing-stop"]
                   ELSE [in EXCEPT !.message = FALSE]]
    /\ UNCHANGED <<conn, registered, rooms, storageVars, tasks, log, nops, historyVars>>

(***************************************************************************)
(* Events that arrive without a payload (data is undefined).  The handlers *)
(* of typing-start, typing-stop and the three webrtc events read a field   *)
(* of data outside any try block; socket.io calls them from a nextTick     *)
(* callback and the process registers no 'uncaughtException' handler, so   *)
(* the TypeError ends the process.  send-message reads data.content inside *)
(* its try block, and leave-channel passes its argument to socket.leave.   *)
(***************************************************************************)
Unguarded == {"typing-start", "typing-stop", "webrtc-offer", "webrtc-answer",
              "webrtc-ice-candidate"}
EventTypes == Unguarded \cup {"send-message", "leave-channel"}

\* an event of the given type with no payload
UndefinedPayload(c, type) ==
    /\ CanSend(c)
    /\ nops' = nops + 1
    /\ IF type \in Unguarded
       THEN \* the process exits: every socket is gone and no handler continues
            /\ conn' = [x \in Conns |-> [conn[x] EXCEPT !.state = "closed"]]
            /\ registered' = {}
            /\ rooms' = [k \in DOMAIN rooms |-> {}]
            /\ tasks' = EmptyBag
            /\ UNCHANGED log
       ELSE /\ log' = IF type = "send-message"
                      THEN Append(log, ErrorEvent(c, "Failed to send message"))
                      ELSE log
            /\ UNCHANGED <<conn, registered, rooms, tasks>>
    /\ UNCHANGED <<storageVars, view, historyVars>>

(***************************************************************************)
(* Huddle coordinator: huddleHandlers and HuddleService.                   *)
(***************************************************************************)
HuddleExists(h) == h \in HuddleIds /\ huddles[h].status # None
RowsOf(h, u) == {p \in participants : p.huddleId = h /\ p.userId = u}

\* a participants table without its unique index
participantUniqueOff(rows, h, u) == TRUE

\* @@unique([huddleId, userId]): an insert passes if the pair has no row
participantUnique(rows, h, u) ==
    ~\E p \in rows : p.huddleId = h /\ p.userId = u

\* an id generator that hands out the id of a huddle that has ended
freshIdOrEnded(h) == huddles[h].status # "active"

\* huddle.create: the id column's default (cuid()) is an id no huddle row has
freshId(h) == ~HuddleExists(h)

\* a roster query with the filter inverted (leftAt: { not: null })
getHuddleParticipantsLeft(h) ==
    {p.userId : p \in {q \in participants : q.huddleId = h /\ q.left}}

\* HuddleService.getHuddleParticipants: findMany({huddleId, leftAt: null})
getHuddleParticipants(h) ==
    {p.userId : p \in {q \in participants : q.huddleId = h /\ ~q.left}}

\* an end that leaves the participant rows as they are
markAllLeftSkipped(rows, h) == rows

\* huddleParticipant.updateMany({huddleId, leftAt: null}, {leftAt: now})
markAllLeft(rows, h) ==
    {IF p.huddleId = h THEN [p EXCEPT !.left = TRUE] ELSE p : p \in rows}

\* huddleParticipant.updateMany({huddleId, userId, leftAt: null}, {leftAt: now})
markLeft(rows, h, u) ==
    {IF p.huddleId = h /\ p.userId = u THEN [p EXCEPT !.left = TRUE] ELSE p : p \in rows}

\* socket.on('create-huddle') without a channelId: createHuddle starts and
\* awaits huddle.create (no more huddles are created than the model has ids for)
CreateHuddle(c) ==
    /\ CanSend(c)
    /\ BagCardinality([t \in {x \in Running : x.kind = "create-huddle" /\ x.pc = "create"}
                          |-> tasks[t]])
         < Cardinality({h \in HuddleIds : freshId(h)})
    /\ tasks' = Start(Task("create-huddle", c, "create", None, None, 0))
    /\ nops' = nops + 1
    /\ UNCHANGED <<conn, registered, rooms, storageVars, view, log, historyVars>>

\* huddle.create({status: 'active'}) with a fresh id, then
\* joinHuddle(huddle.id, creatorId) starts
HuddleCreate(t) ==
    /\ t.kind = "create-huddle" /\ t.pc = "create"
    /\ \E h \in HuddleIds :
          /\ freshId(h)
          /\ huddles' = [huddles EXCEPT ![h] =
                            [status |-> "active", creatorId |-> UserOf(t.conn)]]
          /\ tasks' = Done(t) (+) SetToBag({[t EXCEPT !.pc = "joinFind", !.key = h]})
    /\ UNCHANGED <<conn, registered, rooms, members, dms, messages, status, typing,
                   participants, reactions, view, log, nops, historyVars>>

\* socket.on('join-huddle'): joinHuddle starts and awaits findUnique; aux keeps
\* the huddle's status at the time of the request
JoinHuddle(c, h) ==
    /\ CanSend(c)
    /\ tasks' = Start(Task("join-huddle", c, "joinFind", h, huddles[h].status, 0))
    /\ nops' = nops + 1
    /\ UNCHANGED <<conn, registered, rooms, storageVars, view, log, historyVars>>

\* joinHuddle: huddleParticipant.findUnique answers; the huddle row is not read
HuddleJoinFind(t) ==
    /\ t.kind \in {"create-huddle", "join-huddle"} /\ t.pc = "joinFind"
    /\ LET existing == RowsOf(t.key, UserOf(t.conn)) IN
       tasks' = IF existing = {} THEN Goto(t, "joinCreate")
                ELSE IF \E p \in existing : p.left THEN Goto(t, "joinUpdate")
                ELSE Goto(t, "joined")
    /\ UNCHANGED <<conn, registered, rooms, storageVars, view, log, nops, historyVars>>

\* joinHuddle: huddleParticipant.update({leftAt: null, ...}) of the row found
HuddleJoinUpdate(t) ==
    /\ t.kind \in {"create-huddle", "join-huddle"} /\ t.pc = "joinUpdate"
    /\ LET u == UserOf(t.conn) IN
       /\ participants' = {IF p \in RowsOf(t.key, u) THEN [p EXCEPT !.left = FALSE] ELSE p :
                               p \in participants}
       /\ dropped' = {x \in dropped : ~(UserOf(x[1]) = u /\ x[2] = t.key)}
    /\ tasks' = Goto(t, "joined")
    /\ UNCHANGED <<conn, registered, rooms, members, dms, messages, status, typing,
                   huddles, reactions, view, log, nops, checked, toggles>>

\* joinHuddle: huddleParticipant.create under @@unique([huddleId, userId]) and the
\* huddle relation; a violation throws and the handler emits 'error'
HuddleJoinCreate(t) ==
    /\ t.kind \in {"create-huddle", "join-huddle"} /\ t.pc = "joinCreate"
    /\ LET u == UserOf(t.conn) IN
       IF ~participantUnique(participants, t.key, u) \/ ~HuddleExists(t.key)
       THEN /\ log' = Append(log, ErrorEvent(t.conn,
                         IF t.kind = "create-huddle" THEN "Failed to create huddle"
                         ELSE "Failed to join huddle"))
            /\ tasks' = Done(t)
            /\ UNCHANGED <<participants, dropped>>
       ELSE /\ participants' = participants \cup
                   {[ActiveRow(t.key, u) EXCEPT !.id = Cardinality(RowsOf(t.key, u)) + 1]}
            /\ dropped' = {x \in dropped : ~(UserOf(x[1]) = u /\ x[2] = t.key)}
            /\ tasks' = Goto(t, "joined")
            /\ UNCHANGED log
    /\ UNCHANGED <<conn, registered, rooms, members, dms, messages, status, typing,
                   huddles, reactions, view, nops, checked, toggles>>

\* create-huddle after createHuddle returned: socket.join, io.emit('huddle-created')
HuddleCreated(t) ==
    /\ t.kind = "create-huddle" /\ t.pc = "joined"
    /\ rooms' = SocketJoin(rooms, t.conn, HuddleRoom(t.key))
    /\ log' = Append(log, Event("huddle-created", IoEmit, t.key, UserOf(t.conn), 0, {}))
    /\ tasks' = Done(t)
    /\ UNCHANGED <<conn, registered, storageVars, view, nops, historyVars>>

\* join-huddle after joinHuddle returned: socket.join, then
\* socket.to(room).emit('user-joined-huddle'), then getHuddleParticipants starts;
\* n keeps how many connections the notice went to
HuddleJoined(t) ==
    /\ t.kind = "join-huddle" /\ t.pc = "joined"
    /\ rooms' = SocketJoin(rooms, t.conn, HuddleRoom(t.key))
    /\ log' = Append(log, Event("user-joined-huddle", SocketTo(t.conn, HuddleRoom(t.key)),
                                t.key, UserOf(t.conn), 0, {}))
    /\ tasks' = GotoWith(t, "roster", Cardinality(SocketTo(t.conn, HuddleRoom(t.key))))
    /\ UNCHANGED <<conn, registered, storageVars, view, nops, historyVars>>

\* the roster query answers: socket.emit('huddle-participants')
HuddleRoster(t) ==
    /\ t.kind = "join-huddle" /\ t.pc = "roster"
    /\ log' = Append(log, Event("huddle-participants", SocketEmit(t.conn), t.key,
                                UserOf(t.conn), 0, getHuddleParticipants(t.key)))
    /\ tasks' = Done(t)
    /\ UNCHANGED <<conn, registered, rooms, storageVars, view, nops, historyVars>>

\* the roster query fails in storage: getHuddleParticipants logs and rethrows
\* ('Failed to get huddle participants') and the handler's catch emits 'error'
HuddleRosterFails(t) ==
    /\ t.kind = "join-huddle" /\ t.pc = "roster"
    /\ log' = Append(log, ErrorEvent(t.conn, "Failed to join huddle"))
    /\ tasks' = Done(t)
    /\ UNCHANGED <<conn, registered, rooms, storageVars, view, nops, historyVars>>

\* socket.on('leave-huddle'): leaveHuddle starts and awaits updateMany; aux keeps
\* whether the user was an active participant at the time of the request
LeaveHuddle(c, h) ==
    /\ CanSend(c)
    /\ tasks' = Start(Task("leave-huddle", c, "mark", h,
                           IF UserOf(c) \in getHuddleParticipants(h)
                           THEN "participant" ELSE None, 0))
    /\ nops' = nops + 1
    /\ UNCHANGED <<conn, registered, rooms, storageVars, view, log, historyVars>>

\* leaveHuddle: updateMany marks the user's active row, then count starts
HuddleLeaveMark(t) ==
    /\ t.kind = "leave-huddle" /\ t.pc = "mark"
    /\ participants' = markLeft(participants, t.key, UserOf(t.conn))
    /\ tasks' = Goto(t, "count")
    /\ UNCHANGED <<conn, registered, rooms, members, dms, messages, status, typing,
                   huddles, reactions, view, log, nops, historyVars>>

\* leaveHuddle: count({huddleId, leftAt: null}) answers
HuddleLeaveCount(t) ==
    /\ t.kind = "leave-huddle" /\ t.pc = "count"
    /\ tasks' = IF getHuddleParticipants(t.key) = {} THEN Goto(t, "endEmpty")
                ELSE Goto(t, "left")
    /\ UNCHANGED <<conn, registered, rooms, storageVars, view, log, nops, historyVars>>

\* leaveHuddle: huddle.update({status: 'ended'}); a missing huddle row throws
HuddleLeaveEnd(t) ==
    /\ t.kind = "leave-huddle" /\ t.pc = "endEmpty"
    /\ IF HuddleExists(t.key)
       THEN /\ huddles' = [huddles EXCEPT ![t.key].status = "ended"]
            /\ tasks' = Goto(t, "left")
            /\ UNCHANGED log
       ELSE /\ log' = Append(log, ErrorEvent(t.conn, "Failed to leave huddle"))
            /\ tasks' = Done(t)
            /\ UNCHANGED huddles
    /\ UNCHANGED <<conn, registered, rooms, members, dms, messages, status, typing,
                   participants, reactions, view, nops, historyVars>>

\* leave-huddle after leaveHuddle returned: socket.leave, socket.to(room).emit
HuddleLeft(t) ==
    /\ t.kind = "leave-huddle" /\ t.pc = "left"
    /\ rooms' = SocketLeave(rooms, t.conn, HuddleRoom(t.key))
    /\ log' = Append(log, Event("user-left-huddle", SocketTo(t.conn, HuddleRoom(t.key)),
                                t.key, UserOf(t.conn), 0, {}))
    /\ tasks' = Done(t)
    /\ UNCHANGED <<conn, registered, storageVars, view, nops, historyVars>>

\* socket.on('end-huddle'): endHuddle starts and awaits huddle.findUnique
EndHuddle(c, h) ==
    /\ CanSend(c)
    /\ tasks' = Start(Task("end-huddle", c, "find", h, None, 0))
    /\ nops' = nops + 1
    /\ UNCHANGED <<conn, registered, rooms, storageVars, view, log, historyVars>>

\* a creator check that lets every user end an existing huddle
isCreatorAnyone(h, userId) == HuddleExists(h)

\* !huddle || huddle.creatorId !== userId, negated
isCreator(h, userId) == HuddleExists(h) /\ huddles[h].creatorId = userId

\* endHuddle: only the creator of an existing huddle passes
HuddleEndFind(t) ==
    /\ t.kind = "end-huddle" /\ t.pc = "find"
    /\ IF ~isCreator(t.key, UserOf(t.conn))
       THEN /\ log' = Append(log, ErrorEvent(t.conn, "Failed to end huddle"))
            /\ tasks' = Done(t)
       ELSE /\ tasks' = Goto(t, "end")
            /\ UNCHANGED log
    /\ UNCHANGED <<conn, registered, rooms, storageVars, view, nops, historyVars>>

\* endHuddle: huddle.update({status: 'ended'})
HuddleEndUpdate(t) ==
    /\ t.kind = "end-huddle" /\ t.pc = "end"
    /\ huddles' = [huddles EXCEPT ![t.key].status = "ended"]
    /\ tasks' = Goto(t, "markAll")
    /\ UNCHANGED <<conn, registered, rooms, members, dms, messages, status, typing,
                   participants, reactions, view, log, nops, historyVars>>

\* endHuddle: updateMany marks every active row of the huddle; endHuddle returns
HuddleEndMarkAll(t) ==
    /\ t.kind = "end-huddle" /\ t.pc = "markAll"
    /\ participants' = markAllLeft(participants, t.key)
    /\ tasks' = Goto(t, "ended")
    /\ UNCHANGED <<conn, registered, rooms, members, dms, messages, status, typing,
                   huddles, reactions, view, log, nops, historyVars>>

\* end-huddle after endHuddle returned: io.to(room).emit('huddle-ended'), then
\* every socket fetched from the room leaves it
HuddleEnded(t) ==
    /\ t.kind = "end-huddle" /\ t.pc = "ended"
    /\ log' = Append(log, Event("huddle-ended", IoTo(HuddleRoom(t.key)), t.key,
                                UserOf(t.conn), 0, {}))
    /\ rooms' = [rooms EXCEPT ![HuddleRoom(t.key)] = {}]
    /\ tasks' = Done(t)
    /\ UNCHANGED <<conn, registered, storageVars, view, nops, historyVars>>

(***************************************************************************)
(* Audio/video controls.  updateParticipant writes the audioMuted or       *)
(* videoOn column of the caller's active row; the rows of this model carry *)
(* the columns that decide control flow (huddleId, userId, leftAt), so the *)
(* write itself leaves them as they are.                                   *)
(***************************************************************************)
ToggleFailure(kind) ==
    IF kind = "toggle-audio" THEN "Failed to toggle audio" ELSE "Failed to toggle video"
ToggleEvent(kind) ==
    IF kind = "toggle-audio" THEN "participant-audio-toggled"
    ELSE "participant-video-toggled"

\* socket.on('toggle-audio'): updateParticipant starts and awaits findFirst
ToggleAudio(c, h) ==
    /\ CanSend(c)
    /\ tasks' = Start(Task("toggle-audio", c, "find", h, None, 0))
    /\ nops' = nops + 1
    /\ UNCHANGED <<conn, registered, rooms, storageVars, view, log, historyVars>>

\* socket.on('toggle-video'): updateParticipant starts and awaits findFirst
ToggleVideo(c, h) ==
    /\ CanSend(c)
    /\ tasks' = Start(Task("toggle-video", c, "find", h, None, 0))
    /\ nops' = nops + 1
    /\ UNCHANGED <<conn, registered, rooms, storageVars, view, log, historyVars>>

\* updateParticipant: findFirst({huddleId, userId, leftAt: null}); without a row
\* it throws and the handler emits 'error'
ParticipantFind(t) ==
    /\ t.kind \in {"toggle-audio", "toggle-video"} /\ t.pc = "find"
    /\ IF UserOf(t.conn) \in getHuddleParticipants(t.key)
       THEN /\ tasks' = Goto(t, "update")
            /\ UNCHANGED log
       ELSE /\ log' = Append(log, ErrorEvent(t.conn, ToggleFailure(t.kind)))
            /\ tasks' = Done(t)
    /\ UNCHANGED <<conn, registered, rooms, storageVars, view, nops, historyVars>>

\* updateParticipant: huddleParticipant.update({where: {id}}) of the row found,
\* whatever became of its leftAt since
ParticipantUpdate(t) ==
    /\ t.kind \in {"toggle-audio", "toggle-video"} /\ t.pc = "update"
    /\ tasks' = Goto(t, "emit")
    /\ UNCHANGED <<conn, registered, rooms, storageVars, view, log, nops, historyVars>>

\* socket.to(`huddle:${huddleId}`).emit('participant-audio-toggled' / '-video-')
ParticipantToggled(t) ==
    /\ t.kind \in {"toggle-audio", "toggle-video"} /\ t.pc = "emit"
    /\ log' = Append(log, Event(ToggleEvent(t.kind), SocketTo(t.conn, HuddleRoom(t.key)),
                                t.key, UserOf(t.conn), 0, {}))
    /\ tasks' = Done(t)
    /\ UNCHANGED <<conn, registered, rooms, storageVars, view, nops, historyVars>>

(***************************************************************************)
(* WebRTC signalling.  The three handlers are synchronous and forward the  *)
(* payload with socket.to(data.targetUserId); they read nothing from       *)
(* storage.  An event keeps the huddle id in key, the sender (fromUserId)  *)
(* in user and the string the sender gave as recipient in target.          *)
(***************************************************************************)
SignalTypes == {"webrtc-offer", "webrtc-answer", "webrtc-ice-candidate"}

\* socket.to(data.targetUserId).emit(type, {huddleId, fromUserId, ...})
Relay(c, type, huddleId, targetUserId) ==
    /\ CanSend(c)
    /\ log' = Append(log, [Event(type, SocketTo(c, targetUserId), huddleId,
                                 UserOf(c), 0, {})
                              EXCEPT !.target = targetUserId])
    /\ nops' = nops + 1
    /\ UNCHANGED <<conn, registered, rooms, storageVars, view, tasks, historyVars>>

\* socket.on('webrtc-offer')
WebrtcOffer(c, huddleId, targetUserId) ==
    Relay(c, "webrtc-offer", huddleId, targetUserId)

\* socket.on('webrtc-answer')
WebrtcAnswer(c, huddleId, targetUserId) ==
    Relay(c, "webrtc-answer", huddleId, targetUserId)

\* socket.on('webrtc-ice-candidate')
WebrtcIceCandidate(c, huddleId, targetUserId) ==
    Relay(c, "webrtc-ice-candidate", huddleId, targetUserId)

(***************************************************************************)
(* Specifications.  Each takes the operations of one component, so that    *)
(* its interleavings can be explored in full.                              *)
(***************************************************************************)
ValidTokens == DOMAIN Issued
TwoConns == {"c1", "c2"}

\* connection gateway: every handshake outcome, disconnects, channel joins
NextGateway ==
    \/ \E c \in TwoConns, token \in Tokens : Handshake(c, token)
    \/ \E c \in TwoConns : Disconnect(c)
    \/ \E u \in Users, ch \in Channels : createChannel(u, ch)
    \/ \E c \in TwoConns, key \in Channels : nops < MaxOps /\ JoinChannel(c, key)
    \/ \E t \in Running : DisconnectUpdate(t)
    \/ \E t \in Running : DisconnectEmit(t)
    \/ \E t \in Running : JoinChannelCheck(t)
    \/ \E t \in Running : JoinChannelJoin(t)

SpecGateway == Init /\ [][NextGateway]_vars

\* the send-message requests made so far: those running and those stored
SendCount ==
    BagCardinality([t \in InFlight("send-message") |-> tasks[t]]) + Cardinality(messages)

\* room router and channel fan-out
NextRoom ==
    \/ \E c \in Conns, token \in ValidTokens : Handshake(c, token)
    \/ \E u \in Users, ch \in Channels : createChannel(u, ch)
    \/ \E c \in Conns, key \in Channels : nops < MaxOps /\ JoinChannel(c, key)
    \/ \E c \in Conns, key \in Channels : nops < MaxOps /\ LeaveChannel(c, key)
    \/ \E c \in Conns, ch \in Channels : nops < MaxOps /\ SendMessage(c, ch, None, "hi")
    \/ \E t \in Running : JoinChannelCheck(t)
    \/ \E t \in Running : JoinChannelJoin(t)
    \/ \E t \in Running : SendCreateMsg(t)
    \/ \E t \in Running : SendEmit(t)

SpecRoom == Init /\ [][NextRoom]_vars

\* direct messages: find-or-create of the pairwise conversation
NextDm ==
    \/ \E c \in TwoConns, token \in ValidTokens : Handshake(c, token)
    \/ \E c \in TwoConns, dm \in Users : nops < MaxOps /\ SendMessage(c, None, dm, "hi")
    \/ \E t \in Running : SendFind(t)
    \/ \E t \in Running : SendCreateDm(t)
    \/ \E t \in Running : SendCreateMsg(t)
    \/ \E t \in Running : SendEmit(t)

SpecDm == Init /\ [][NextDm]_vars

HuddleSteps ==
    \/ \E t \in Running : HuddleCreate(t)
    \/ \E t \in Running : HuddleJoinFind(t)
    \/ \E t \in Running : HuddleJoinUpdate(t)
    \/ \E t \in Running : HuddleJoinCreate(t)
    \/ \E t \in Running : HuddleCreated(t)
    \/ \E t \in Running : HuddleJoined(t)
    \/ \E t \in Running : HuddleRoster(t)
    \/ \E t \in Running : HuddleLeaveMark(t)
    \/ \E t \in Running : HuddleLeaveCount(t)
    \/ \E t \in Running : HuddleLeaveEnd(t)
    \/ \E t \in Running : HuddleLeft(t)
    \/ \E t \in Running : HuddleEndFind(t)
    \/ \E t \in Running : HuddleEndUpdate(t)
    \/ \E t \in Running : HuddleEndMarkAll(t)
    \/ \E t \in Running : HuddleEnded(t)

\* huddle coordinator: create, join, leave and end (users are interchangeable,
\* so the first connection is taken to be the first user's)
NextHuddle ==
    \/ \E c \in TwoConns, token \in ValidTokens :
          (c = "c1" => token = "tok_u1") /\ Handshake(c, token)
    \/ \E c \in TwoConns : nops < MaxOps /\ CreateHuddle(c)
    \/ \E c \in TwoConns, h \in HuddleIds : nops < MaxOps /\ JoinHuddle(c, h)
    \/ \E c \in TwoConns, h \in HuddleIds : nops < MaxOps /\ LeaveHuddle(c, h)
    \/ \E c \in TwoConns, h \in HuddleIds : nops < MaxOps /\ EndHuddle(c, h)
    \/ HuddleSteps

SpecHuddle == Init /\ [][NextHuddle]_vars

\* huddle participants whose connection closes
NextHuddleDrop ==
    \/ \E c \in TwoConns, token \in ValidTokens : Handshake(c, token)
    \/ \E c \in TwoConns : Disconnect(c)
    \/ \E c \in TwoConns : nops < MaxDropOps /\ CreateHuddle(c)
    \/ \E c \in TwoConns, h \in HuddleIds : nops < MaxDropOps /\ JoinHuddle(c, h)
    \/ \E t \in Running : DisconnectUpdate(t)
    \/ \E t \in Running : DisconnectEmit(t)
    \/ \E t \in Running : HuddleCreate(t)
    \/ \E t \in Running : HuddleJoinFind(t)
    \/ \E t \in Running : HuddleJoinCreate(t)
    \/ \E t \in Running : HuddleCreated(t)
    \/ \E t \in Running : HuddleJoined(t)
    \/ \E t \in Running : HuddleRoster(t)

SpecHuddleDrop == Init /\ [][NextHuddleDrop]_vars

\* the event loop runs every continuation that is ready: no handler that can
\* take a step waits forever
DropSteps ==
    \/ \E t \in Running : DisconnectUpdate(t)
    \/ \E t \in Running : DisconnectEmit(t)
    \/ \E t \in Running : HuddleCreate(t)
    \/ \E t \in Running : HuddleJoinFind(t)
    \/ \E t \in Running : HuddleJoinCreate(t)
    \/ \E t \in Running : HuddleCreated(t)
    \/ \E t \in Running : HuddleJoined(t)
    \/ \E t \in Running : HuddleRoster(t)

SpecHuddleDropFair == SpecHuddleDrop /\ WF_vars(DropSteps)

\* reactions: one message in a channel, the REST route and the toggle button
NextReact ==
    \/ \E c \in TwoConns, token \in ValidTokens : Handshake(c, token)
    \/ \E u \in Users, ch \in Channels : createChannel(u, ch)
    \/ \E c \in TwoConns, ch \in Channels :
          /\ nops < MaxReactOps /\ ChannelExists(ch)
          /\ messages = {} /\ InFlight("send-message") = {}
          /\ SendMessage(c, ch, None, "hi")
    \/ \E c \in TwoConns, ch \in Channels : ClientFetch(c, ch)
    \/ \E u \in Users, m \in MessageIds, e \in Emojis : RestAddReaction(u, m, e)
    \/ \E c \in TwoConns, m \in MessageIds, e \in Emojis :
          nops < MaxReactOps /\ Toggle(c, m, e)
    \/ \E t \in Running : SendCreateMsg(t)
    \/ \E t \in Running : SendEmit(t)
    \/ \E t \in Running : ReactionAdd(t)
    \/ \E t \in Running : ReactionAddCreate(t)
    \/ \E t \in Running : ReactionAddEmit(t)
    \/ \E t \in Running : ReactionRemove(t)
    \/ \E t \in Running : ReactionRemoveEmit(t)

SpecReact == Init /\ [][NextReact]_vars

\* the targets a client may name: a channel, a user, both or neither
ChannelIds == Channels \cup {None}
DmUserIds == Users \cup {None}

\* typing indicators among channel members, with sockets that close
NextTyping ==
    \/ \E c \in TwoConns, token \in ValidTokens : Handshake(c, token)
    \/ \E c \in TwoConns : Disconnect(c)
    \/ \E u \in Users, ch \in Channels : createChannel(u, ch)
    \/ \E c \in TwoConns, key \in Channels : nops < MaxTypingOps /\ JoinChannel(c, key)
    \/ \E c \in TwoConns, ch \in ChannelIds, dm \in DmUserIds :
          nops < MaxTypingOps /\ TypingStart(c, ch, dm)
    \/ \E c \in TwoConns, ch \in ChannelIds, dm \in DmUserIds :
          nops < MaxTypingOps /\ TypingStop(c, ch, dm)
    \/ \E t \in Running : DisconnectUpdate(t)
    \/ \E t \in Running : DisconnectEmit(t)
    \/ \E t \in Running : JoinChannelCheck(t)
    \/ \E t \in Running : JoinChannelJoin(t)

SpecTyping == Init /\ [][NextTyping]_vars

\* editing and deleting the messages of a channel
NextEdit ==
    \/ \E c \in TwoConns, token \in ValidTokens : Handshake(c, token)
    \/ \E u \in Users, ch \in Channels : createChannel(u, ch)
    \/ \E c \in TwoConns, ch \in Channels :
          nops < MaxOps /\ ChannelExists(ch) /\ SendMessage(c, ch, None, "hi")
    \/ \E c \in TwoConns, m \in MessageIds :
          nops < MaxOps /\ UpdateMessage(c, m, "edit")
    \/ \E c \in TwoConns, m \in MessageIds : nops < MaxOps /\ DeleteMessage(c, m)
    \/ \E t \in Running : SendCreateMsg(t)
    \/ \E t \in Running : SendEmit(t)
    \/ \E t \in Running : UpdateFind(t)
    \/ \E t \in Running : UpdateWrite(t)
    \/ \E t \in Running : UpdateEmit(t)
    \/ \E t \in Running : DeleteFind(t)
    \/ \E t \in Running : DeleteWrite(t)
    \/ \E t \in Running : DeleteEmit(t)

SpecEdit == Init /\ [][NextEdit]_vars

\* send-message with every shape of payload: a channel, a user, both or
\* neither, and every kind of body
NextSend ==
    \/ \E c \in TwoConns, token \in ValidTokens : Handshake(c, token)
    \/ \E u \in Users, ch \in Channels : createChannel(u, ch)
    \/ \E c \in TwoConns, ch \in ChannelIds, dm \in DmUserIds, content \in Contents :
          nops < MaxSendOps /\ SendMessage(c, ch, dm, content)
    \/ \E t \in Running : SendFind(t)
    \/ \E t \in Running : SendCreateDm(t)
    \/ \E t \in Running : SendCreateMsg(t)
    \/ \E t \in Running : SendEmit(t)

SpecSend == Init /\ [][NextSend]_vars

\* users typing into the message input of a channel
NextInput ==
    \/ \E c \in TwoConns, token \in ValidTokens : Handshake(c, token)
    \/ \E c \in TwoConns : handleInputChange(c)
    \/ \E c \in TwoConns : sendMessage(c)
    \/ \E c \in TwoConns : TypingTimeout(c)

SpecInput == Init /\ [][NextInput]_vars

\* a pending timeout fires; nothing makes the user type or send
SpecInputFair == SpecInput /\ WF_vars(\E c \in TwoConns : TypingTimeout(c))

\* useMessages mounts and unmounts once: connection c1 sends join-channel as
\* its first request and leave-channel as its second
NextJoinLeave ==
    \/ \E c \in TwoConns, token \in ValidTokens : Handshake(c, token)
    \/ \E u \in Users, ch \in Channels : createChannel(u, ch)
    \/ \E key \in Channels : nops = 0 /\ JoinChannel("c1", key)
    \/ \E key \in Channels : nops = 1 /\ LeaveChannel("c1", key)
    \/ \E t \in Running : JoinChannelCheck(t)
    \/ \E t \in Running : JoinChannelJoin(t)

SpecJoinLeave == Init /\ [][NextJoinLeave]_vars

\* a direct message and its edits
NextDmEdit ==
    \/ \E c \in TwoConns, token \in ValidTokens : Handshake(c, token)
    \/ \E c \in TwoConns, dm \in Users :
          /\ nops < MaxOps /\ SendCount = 0
          /\ SendMessage(c, None, dm, "hi")
    \/ \E c \in TwoConns, m \in MessageIds :
          nops < MaxOps /\ UpdateMessage(c, m, "edit")
    \/ \E t \in Running : SendFind(t)
    \/ \E t \in Running : SendCreateDm(t)
    \/ \E t \in Running : SendCreateMsg(t)
    \/ \E t \in Running : SendEmit(t)
    \/ \E t \in Running : UpdateFind(t)
    \/ \E t \in Running : UpdateWrite(t)
    \/ \E t \in Running : UpdateEmit(t)
    \/ \E t \in Running : UpdateDmEmit(t)

SpecDmEdit == Init /\ [][NextDmEdit]_vars

\* typing and channel rooms, with events that carry no payload
NextPayload ==
    \/ \E c \in TwoConns, token \in ValidTokens : Handshake(c, token)
    \/ \E u \in Users, ch \in Channels : createChannel(u, ch)
    \/ \E c \in TwoConns, key \in Channels : nops < MaxPayloadOps /\ JoinChannel(c, key)
    \/ \E c \in TwoConns, ch \in ChannelIds, dm \in DmUserIds :
          nops < MaxPayloadOps /\ TypingStart(c, ch, dm)
    \/ \E c \in TwoConns, type \in EventTypes :
          nops < MaxPayloadOps /\ UndefinedPayload(c, type)
    \/ \E t \in Running : JoinChannelCheck(t)
    \/ \E t \in Running : JoinChannelJoin(t)

SpecPayload == Init /\ [][NextPayload]_vars

\* huddles over a storage whose roster query may fail
NextHuddleFault ==
    \/ \E c \in TwoConns, token \in ValidTokens :
          (c = "c1" => token = "tok_u1") /\ Handshake(c, token)
    \/ \E c \in TwoConns : nops < MaxFaultOps /\ CreateHuddle(c)
    \/ \E c \in TwoConns, h \in HuddleIds : nops < MaxFaultOps /\ JoinHuddle(c, h)
    \/ \E c \in TwoConns, h \in HuddleIds : nops < MaxFaultOps /\ LeaveHuddle(c, h)
    \/ \E c \in TwoConns, h \in HuddleIds : nops < MaxFaultOps /\ EndHuddle(c, h)
    \/ \E t \in Running : HuddleRosterFails(t)
    \/ HuddleSteps

SpecHuddleFault == Init /\ [][NextHuddleFault]_vars

\* one connection sends "hi" and then "edit" to a channel others have joined
NextOrder ==
    \/ \E c \in TwoConns, token \in ValidTokens : Handshake(c, token)
    \/ \E u \in Users, ch \in Channels : createChannel(u, ch)
    \/ \E c \in TwoConns, key \in Channels : nops < MaxOrderOps /\ JoinChannel(c, key)
    \/ \E ch \in Channels :
          /\ nops < MaxOrderOps /\ ChannelExists(ch) /\ SendCount = 0
          /\ SendMessage("c1", ch, None, "hi")
    \/ \E ch \in Channels :
          /\ nops < MaxOrderOps /\ ChannelExists(ch) /\ SendCount = 1
          /\ SendMessage("c1", ch, None, "edit")
    \/ \E t \in Running : JoinChannelCheck(t)
    \/ \E t \in Running : JoinChannelJoin(t)
    \/ \E t \in Running : SendCreateMsg(t)
    \/ \E t \in Running : SendEmit(t)

SpecOrder == Init /\ [][NextOrder]_vars

\* the continuations of the audio/video controls
ToggleSteps ==
    \/ \E t \in Running : ParticipantFind(t)
    \/ \E t \in Running : ParticipantUpdate(t)
    \/ \E t \in Running : ParticipantToggled(t)

\* every huddle operation of two users with one connection each, one of which
\* may close (the users are interchangeable)
NextHuddleAll ==
    \/ \E c \in TwoConns, token \in ValidTokens :
          (c = "c1" <=> token = "tok_u1") /\ Handshake(c, token)
    \/ \E c \in {"c2"} : Disconnect(c)
    \/ \E c \in TwoConns : nops < MaxHuddleOps /\ CreateHuddle(c)
    \/ \E c \in TwoConns, h \in HuddleIds : nops < MaxHuddleOps /\ JoinHuddle(c, h)
    \/ \E c \in TwoConns, h \in HuddleIds : nops < MaxHuddleOps /\ LeaveHuddle(c, h)
    \/ \E c \in TwoConns, h \in HuddleIds : nops < MaxHuddleOps /\ EndHuddle(c, h)
    \/ \E c \in TwoConns, h \in HuddleIds : nops < MaxHuddleOps /\ ToggleAudio(c, h)
    \/ \E c \in TwoConns, h \in HuddleIds : nops < MaxHuddleOps /\ ToggleVideo(c, h)
    \/ \E t \in Running : DisconnectUpdate(t)
    \/ \E t \in Running : DisconnectEmit(t)
    \/ HuddleSteps
    \/ ToggleSteps

SpecHuddleAll == Init /\ [][NextHuddleAll]_vars

\* huddles and the signalling between their participants
NextSignal ==
    \/ \E c \in TwoConns, token \in ValidTokens :
          (c = "c1" => token = "tok_u1") /\ Handshake(c, token)
    \/ \E c \in TwoConns : nops < MaxSignalOps /\ CreateHuddle(c)
    \/ \E c \in TwoConns, h \in HuddleIds : nops < MaxSignalOps /\ JoinHuddle(c, h)
    \/ \E c \in TwoConns, h \in HuddleIds : nops < MaxSignalOps /\ LeaveHuddle(c, h)
    \/ \E c \in TwoConns, h \in HuddleIds : nops < MaxSignalOps /\ EndHuddle(c, h)
    \/ \E c \in TwoConns, h \in HuddleIds, target \in RoomKeys :
          nops < MaxSignalOps /\ WebrtcOffer(c, h, target)
    \/ \E c \in TwoConns, h \in HuddleIds, target \in RoomKeys :
          nops < MaxSignalOps /\ WebrtcAnswer(c, h, target)
    \/ \E c \in TwoConns, h \in HuddleIds, target \in RoomKeys :
          nops < MaxSignalOps /\ WebrtcIceCandidate(c, h, target)
    \/ HuddleSteps

SpecSignal == Init /\ [][NextSignal]_vars

\* presence: logins, status updates, and sockets that open and close
NextPresence ==
    \/ \E c \in TwoConns, token \in ValidTokens : Handshake(c, token)
    \/ \E u \in Users : Login(u)
    \/ \E c \in TwoConns : Disconnect(c)
    \/ \E c \in TwoConns, st \in StatusInputs : nops < MaxPresenceOps /\ UpdateStatus(c, st)
    \/ \E t \in Running : DisconnectUpdate(t)
    \/ \E t \in Running : DisconnectEmit(t)
    \/ \E t \in Running : StatusUpdate(t)
    \/ \E t \in Running : StatusEmit(t)

SpecPresence == Init /\ [][NextPresence]_vars

\* the event loop runs every continuation that is ready
PresenceSteps ==
    \/ \E t \in Running : DisconnectUpdate(t)
    \/ \E t \in Running : DisconnectEmit(t)
    \/ \E t \in Running : StatusUpdate(t)
    \/ \E t \in Running : StatusEmit(t)

SpecPresenceFair == SpecPresence /\ WF_vars(PresenceSteps)

(***************************************************************************)
(* Claims.                                                                 *)
(***************************************************************************)
LogIndex == 1..Len(log)
Pair(d) == {d.user1Id, d.user2Id}

\* C1: once the concurrent first direct messages of a pair of users have been
\* processed, there is exactly one conversation record for the unordered pair
\* and all their direct messages reference that one record.
C1_OneConversationPerPair ==
    InFlight("send-message") = {} =>
        /\ \A d1, d2 \in dms : Pair(d1) = Pair(d2) => d1 = d2
        /\ \A m1, m2 \in messages :
              (\E d1, d2 \in dms :
                  d1.id = m1.dmId /\ d2.id = m2.dmId /\ Pair(d1) = Pair(d2))
              => m1.dmId = m2.dmId

\* C2: a 'new-message' emitted for a channel reaches exactly the connections
\* that are in the channel's room when it is emitted, and an emitted event is
\* never delivered to anyone afterwards (a later join receives nothing).
C2_ChannelFanOut ==
    [][/\ \A i \in LogIndex : log'[i] = log[i]
       /\ \A i \in (Len(log) + 1)..Len(log') :
             (log'[i].type = "new-message" /\ log'[i].key \in Channels) =>
                log'[i].to = {c \in Conns : /\ c \in rooms[log'[i].key]
                                            /\ conn[c].state = "connected"}]_vars

C2_Witness ==
    \E i \in LogIndex :
        /\ log[i].type = "new-message" /\ log[i].key \in Channels
        /\ log[i].to # {}
        /\ \E c \in rooms[log[i].key] : c \notin log[i].to
        /\ \E c \in Live : c \notin rooms[log[i].key] /\ c \notin log[i].to

\* C3: a connection is in a channel's room only if a membership check made for
\* that connection's join request found its user among the channel's members.
C3_RoomOnlyForMembers ==
    \A ch \in Channels : \A c \in rooms[ch] : <<c, ch, TRUE>> \in checked

C3_Witness ==
    \E ch \in Channels, c1, c2 \in Conns :
        /\ c1 \in rooms[ch]
        /\ <<c2, ch, FALSE>> \in checked
        /\ c2 \notin rooms[ch]
        /\ InFlight("join-channel") = {}

\* C4: a join request of a non-member, once handled, has produced an error
\* event to the requesting connection and to nobody else.
C4_DeniedJoinReportsError ==
    \A x \in checked :
        (~x[3] /\ ~\E t \in InFlight("join-channel") : t.conn = x[1] /\ t.key = x[2])
        => \E i \in LogIndex : log[i].type = "error" /\ log[i].to = {x[1]}

\* C5: a connection has its handlers registered, is in a room, or has an event
\* in processing only if its handshake token verified, and its identity is the
\* user the token was issued to; a refused connection has none of these.
C5_OnlyAuthenticated ==
    \A c \in Conns :
        (\/ c \in registered
         \/ conn[c].state \in {"connected", "closed"}
         \/ \E k \in DOMAIN rooms : c \in rooms[k]
         \/ \E t \in Running : t.conn = c)
        => /\ conn[c].token \in DOMAIN Issued
           /\ conn[c].userId = Issued[conn[c].token]

C5_Witness ==
    \E c1, c2 \in Conns :
        /\ conn[c1].state = "refused" /\ c1 \notin registered
        /\ conn[c2].state = "connected"
        /\ \E t \in Running : t.conn = c2 /\ t.kind = "join-channel"

\* the task that takes a step, if the step is one of a handler
Finished == {t \in Running : CopiesIn(t, tasks') < CopiesIn(t, tasks)}
Stepped(kind, pc) == {t \in Finished : t.kind = kind /\ t.pc = pc}
NewEvents == {log'[i] : i \in (Len(log) + 1)..Len(log')}

\* C6: when endHuddle, called by the creator, completes its last storage call,
\* the huddle's status is ended and every participant row of the huddle that
\* had no leave timestamp has one.
C6_EndMarksAllLeft ==
    [][\A t \in Stepped("end-huddle", "markAll") :
          /\ huddles'[t.key].status = "ended"
          /\ \A p \in participants :
                (p.huddleId = t.key /\ ~p.left) =>
                   /\ p \notin participants'
                   /\ LeftRow(t.key, p.userId) \in participants']_vars

C6_Witness ==
    \E t \in Running :
        /\ t.kind = "end-huddle" /\ t.pc = "ended"
        /\ huddles[t.key].status = "ended"
        /\ huddles[t.key].creatorId = UserOf(t.conn)
        /\ \E u \in Users : u # UserOf(t.conn) /\ LeftRow(t.key, u) \in participants
        /\ LeftRow(t.key, UserOf(t.conn)) \in participants
        /\ InFlight("join-huddle") = {} /\ InFlight("leave-huddle") = {}

\* C7: no step of a join-huddle request made on an ended huddle creates or
\* reactivates a participant row, puts the connection into a room or emits
\* anything but an error to the requester.
C7_EndedHuddleRejectsJoin ==
    [][\A t \in Finished :
          (t.kind = "join-huddle" /\ t.aux = "ended") =>
             /\ participants' = participants
             /\ rooms' = rooms
             /\ \A e \in NewEvents : e.type = "error" /\ e.to \subseteq {t.conn}]_vars

\* C8: whenever the connection of an active huddle participant closes without
\* a leave-huddle, eventually that participant's row has a leave timestamp and
\* a 'user-left-huddle' event naming the user has been emitted to the huddle
\* (or the user has come back into the huddle in the meantime).
C8_DisconnectLeavesHuddle ==
    \A c \in TwoConns, h \in HuddleIds :
        (<<c, h>> \in dropped) ~>
            \/ <<c, h>> \notin dropped
            \/ /\ LeftRow(h, UserOf(c)) \in participants
               /\ \E i \in LogIndex :
                     /\ log[i].type = "user-left-huddle"
                     /\ log[i].key = h
                     /\ log[i].user = UserOf(c)

\* C9: the 'user-joined-huddle' event of a join reaches every connection that
\* is in the huddle's room except the joiner's own, and the roster sent to the
\* joiner contains every user with an active participant row at that moment.
C9_JoinRosterAndNotice ==
    [][/\ \A t \in Stepped("join-huddle", "joined") :
             \E e \in NewEvents :
                /\ e.type = "user-joined-huddle" /\ e.key = t.key
                /\ e.user = UserOf(t.conn)
                /\ e.to = {c \in Conns : /\ c \in rooms[HuddleRoom(t.key)]
                                         /\ c # t.conn
                                         /\ conn[c].state = "connected"}
       /\ \A t \in Stepped("join-huddle", "roster") :
             \E e \in NewEvents :
                /\ e.type = "huddle-participants" /\ e.key = t.key
                /\ e.to = {c \in {t.conn} : conn[c].state = "connected"}
                /\ ActiveUsers(t.key) \subseteq e.roster]_vars

C9_Witness ==
    \E i, j \in LogIndex :
        /\ i < j
        /\ log[i].type = "user-joined-huddle" /\ log[i].to # {}
        /\ log[j].type = "huddle-participants" /\ log[j].key = log[i].key
        /\ log[j].user = log[i].user
        /\ log[j].to # {} /\ log[j].to \cap log[i].to = {}
        /\ Cardinality(log[j].roster) = 2
        /\ huddles[log[i].key].status = "active"

\* the positions in the log of the reaction events of one triple
ReactionEvents(x) ==
    {i \in LogIndex : /\ log[i].type \in {"reaction-added", "reaction-removed"}
                      /\ log[i].n = x[1] /\ log[i].user = x[2] /\ log[i].key = x[3]}

\* C10: for a reaction that only the toggle button ever touched, once the n
\* toggles issued have been processed the record exists exactly if n is odd,
\* and the reaction events emitted for it alternate between added and removed,
\* starting with added.
C10_ToggleParity ==
    (InFlight("add-reaction") = {} /\ InFlight("remove-reaction") = {}) =>
        \A x \in Triples :
            ~toggles[x].rest =>
                /\ ReactionRows(x) # {} <=> toggles[x].n % 2 = 1
                /\ \A i \in ReactionEvents(x) :
                      log[i].type = "reaction-added" <=>
                         Cardinality({j \in ReactionEvents(x) : j < i}) % 2 = 0

\* C11: whatever adds and removes have run or are running, also two adds of
\* the same triple at once, the reactions table holds at most one row for
\* each (message, user, emoji).
C11_OneReactionPerTriple ==
    \A x \in Triples : Cardinality(ReactionRows(x)) <= 1

C11_Witness ==
    \E t \in Running :
        /\ t.kind = "add-reaction" /\ t.pc = "create"
        /\ Cardinality(ReactionRows(<<t.n, UserOf(t.conn), t.key>>)) = 1
        /\ \E i \in LogIndex :
              /\ log[i].type = "reaction-added"
              /\ log[i].user = UserOf(t.conn) /\ log[i].n = t.n /\ log[i].key = t.key

\* C12: in the step that handles a typing-start of user U for a group, the
\* server comes to hold a typing marker for U and that group (which its TTL
\* then removes unless a stop or a new start comes first).
C12_TypingMarkerArmed ==
    [][\A e \in NewEvents :
          e.type = "user-typing-start" =>
             \E k \in typing' : k[2] = e.user]_vars

\* C13: a step of an edit or delete request made by a user who is not the
\* author of the message it names leaves the messages table as it is and emits
\* nothing but an error to the requesting connection.
C13_OnlyAuthorEditsOrDeletes ==
    [][\A t \in Finished :
          (/\ t.kind \in {"update-message", "delete-message"}
           /\ \E r \in Stored : r.id = t.n /\ r.userId # UserOf(t.conn))
          => /\ messages' = messages
             /\ \A e \in NewEvents : e.type = "error" /\ e.to = {t.conn}]_vars

C13_Witness ==
    /\ InFlight("update-message") = {} /\ InFlight("delete-message") = {}
    /\ \E r \in Stored :
          /\ r.content = "hi" /\ ~r.edited
          /\ \E i, j \in LogIndex :
                /\ log[i].type = "error" /\ log[i].key = "Failed to update message"
                /\ log[j].type = "error" /\ log[j].key = "Failed to delete message"
                /\ log[i].user # r.userId /\ log[j].user # r.userId
                /\ log[i].to # {} /\ log[j].to # {}

\* C14: a message is stored for a channel, and a 'new-message' is emitted to a
\* channel's room, only if the author is a member of that channel.
C14_NonMemberCannotSend ==
    /\ \A r \in Stored :
          r.channelId # None => <<r.channelId, r.userId>> \in members
    /\ \A i \in LogIndex :
          (log[i].type = "new-message" /\ log[i].key \in Channels)
          => <<log[i].key, log[i].user>> \in members

\* C15: no message with an empty body or one over the maximum length is
\* stored, and none is announced by a 'new-message' event.
C15_BodyIsValidated ==
    /\ \A r \in messages :
          ContentLength(r.content) >= 1 /\ ContentLength(r.content) <= MaxContentLength
    /\ \A i \in LogIndex :
          log[i].type = "new-message" =>
             \A r \in messages :
                r.id = log[i].n =>
                   /\ ContentLength(r.content) >= 1
                   /\ ContentLength(r.content) <= MaxContentLength

\* C16: every stored message carries exactly one of a channel id and a
\* conversation id.
C16_ChannelXorConversation ==
    \A r \in messages : (r.channelId # None) # (r.dmId # 0)

\* C17: a step of the 'disconnect' handler of a connection whose user has
\* another live connection neither changes the user's status nor emits a
\* presence event.
C17_OfflineOnlyAfterLastConnection ==
    [][\A t \in Finished :
          (/\ t.kind = "disconnect"
           /\ \E c \in Live : c # t.conn /\ UserOf(c) = UserOf(t.conn))
          => /\ status'[UserOf(t.conn)] = status[UserOf(t.conn)]
             /\ NewEvents = {}]_vars

\* C18: after every successful handshake of a connection of user U, with no
\* further event from the client, U's status becomes online and a
\* 'user-status-changed' event for U with status online is broadcast.
C18_HandshakeMarksOnline ==
    \A c \in TwoConns :
        (conn[c].state = "connected") ~>
            \E i \in LogIndex :
                /\ log[i].type = "user-status-changed"
                /\ log[i].key = "online"
                /\ log[i].user = UserOf(c)

\* C19: a signalling event (offer, answer or candidate) naming huddle H reaches
\* a connection only if, when it is relayed, H is active and the sender is a
\* participant of H without a leave timestamp.
C19_RelayOnlyFromParticipants ==
    [][\A e \in NewEvents :
          (e.type \in SignalTypes /\ e.to # {})
          => /\ HuddleExists(e.key)
             /\ huddles[e.key].status = "active"
             /\ e.user \in getHuddleParticipants(e.key)]_vars

\* C20: a signalling event reaches only connections whose authenticated user
\* is the recipient the sender named.
C20_RelayOnlyToRecipient ==
    \A i \in LogIndex :
        log[i].type \in SignalTypes =>
            \A c \in log[i].to : UserOf(c) = log[i].target

\* the connections of the group a message belongs to: those in its channel's
\* room or of a member of its channel, or those of the two users of its
\* conversation
GroupOf(m) ==
    LET r == CHOOSE q \in messages : q.id = m IN
    {c \in Live :
        \/ /\ r.channelId # None
           /\ c \in InRoom(r.channelId) \/ canUserAccessChannel(UserOf(c), r.channelId)
        \/ \E d \in dms : d.id = r.dmId /\ UserOf(c) \in Pair(d)}

\* C21: a 'reaction-added', 'reaction-removed' or 'message-deleted' event about
\* a message reaches only connections of the group the message belongs to.
C21_EventsStayInGroup ==
    [][\A e \in NewEvents :
          (/\ e.type \in {"reaction-added", "reaction-removed", "message-deleted"}
           /\ \E q \in messages : q.id = e.n)
          => e.to \subseteq GroupOf(e.n)]_vars

\* C22: in every sequence of create, join, leave, end, toggle and disconnect
\* operations, a huddle whose status is ended keeps that status in every step.
C22_EndedIsTerminal ==
    [][\A h \in HuddleIds :
          huddles[h].status = "ended" => huddles'[h].status = "ended"]_vars

C22_Witness ==
    \E h \in HuddleIds :
        /\ huddles[h].status = "ended"
        /\ \E i, j \in LogIndex :
              /\ i < j
              /\ log[i].type = "huddle-ended" /\ log[i].key = h
              /\ log[j].type = "huddle-participants" /\ log[j].key = h

\* the leave-huddle handlers whose leaveHuddle call returns in this step
LeaveReturns ==
    {t \in Finished :
        /\ t.kind = "leave-huddle" /\ t.pc \in {"count", "endEmpty"}
        /\ CopiesIn([t EXCEPT !.pc = "left"], tasks')
              > CopiesIn([t EXCEPT !.pc = "left"], tasks)}

\* C23: when leaveHuddle(huddle, user) returns for a user who was an active
\* participant when leaving, every participant row of the user in the huddle
\* has a leave timestamp, and the huddle's status is ended exactly when no
\* participant row of the huddle is without one.
C23_LeaveEndsWhenEmpty ==
    [][\A t \in LeaveReturns :
          t.aux = "participant" =>
          /\ \A p \in participants' :
                (p.huddleId = t.key /\ p.userId = UserOf(t.conn)) => p.left
          /\ huddles'[t.key].status = "ended"
                <=> ~\E p \in participants' : p.huddleId = t.key /\ ~p.left]_vars

\* C24: when an end-huddle request of a user who is not the huddle's creator,
\* or for a huddle that does not exist, is answered, the handler ends there with
\* an 'error' event to the requester alone: no huddle and no participant row
\* changes, no room loses a connection and no 'huddle-ended' is emitted.
C24_OnlyCreatorEnds ==
    [][\A t \in Stepped("end-huddle", "find") :
          (huddles[t.key].status = None \/ huddles[t.key].creatorId # UserOf(t.conn))
          => /\ huddles' = huddles
             /\ participants' = participants
             /\ rooms' = rooms
             /\ tasks' = Done(t)
             /\ NewEvents # {}
             /\ \A e \in NewEvents :
                   /\ e.type = "error" /\ e.key = "Failed to end huddle"
                   /\ e.to \subseteq {t.conn}]_vars

C24_Witness ==
    \E i \in LogIndex, h \in HuddleIds :
        /\ log[i].type = "error" /\ log[i].key = "Failed to end huddle"
        /\ log[i].to # {}
        /\ huddles[h].status = "active" /\ huddles[h].creatorId # log[i].user
        /\ log[i].user \in getHuddleParticipants(h)
        /\ InFlight("end-huddle") = {}

\* C25: every step leaves at most one participant row per (huddle, user); the
\* update of a join that found a row with a leave timestamp adds no row and
\* leaves the user's one row without a leave timestamp; and a join that finds
\* the user's row active returns it and changes no row.
C25_OneRowPerParticipant ==
    [][/\ \A h \in HuddleIds, u \in Users :
             Cardinality({p \in participants' : p.huddleId = h /\ p.userId = u}) <= 1
       /\ \A t \in Finished :
             (t.kind \in {"create-huddle", "join-huddle"} /\ t.pc = "joinUpdate")
             => /\ Cardinality(participants') = Cardinality(participants)
                /\ \E p \in participants' :
                      p.huddleId = t.key /\ p.userId = UserOf(t.conn) /\ ~p.left
       /\ \A t \in Finished :
             (/\ t.kind \in {"create-huddle", "join-huddle"} /\ t.pc = "joinFind"
              /\ UserOf(t.conn) \in getHuddleParticipants(t.key))
             => /\ participants' = participants
                /\ tasks' = Goto(t, "joined")]_vars

C25_Witness ==
    \E i, j \in LogIndex :
        /\ i < j
        /\ log[i].type = "user-left-huddle"
        /\ log[j].type = "huddle-participants"
        /\ log[j].key = log[i].key /\ log[j].user = log[i].user
        /\ RowsOf(log[j].key, log[j].user) = {ActiveRow(log[j].key, log[j].user)}

\* C26: when one connection sends "hi" and then "edit" to the same channel, no
\* connection receives the 'new-message' of "edit" before that of "hi".
C26_SendOrderKept ==
    \A i, j \in LogIndex :
        (/\ i < j
         /\ log[i].type = "new-message" /\ log[j].type = "new-message"
         /\ log[i].key = log[j].key /\ log[i].user = log[j].user
         /\ log[i].to \cap log[j].to # {})
        => ~\E r1, r2 \in messages :
               /\ r1.id = log[j].n /\ r1.content = "hi"
               /\ r2.id = log[i].n /\ r2.content = "edit"

\* C27: a handler step that emits an 'error' event emits it to the requesting
\* connection alone, and the handler that fails has delivered no event about
\* its operation to another connection before.
C27_FailuresStayWithRequester ==
    [][\A t \in Finished :
          (\E e \in NewEvents : e.type = "error")
          => /\ \A e \in NewEvents : e.type = "error" /\ e.to \subseteq {t.conn}
             /\ ~(t.kind = "join-huddle" /\ t.pc = "roster" /\ t.n > 0)]_vars

\* C28: whatever event and payload a connection sends, the failure stays in
\* the handler: every connected socket stays connected with its handlers
\* registered, and every handler in flight stays in flight or takes its step.
C28_BadEventIsContained ==
    [][/\ \A c \in Conns :
             conn[c].state = "connected" => conn'[c].state = "connected"
       /\ registered \subseteq registered'
       /\ BagCardinality(tasks') >= BagCardinality(tasks) - 1]_vars

\* C29: when the conversation insert of a direct-message send meets a row that
\* another send created for the pair meanwhile, the send goes on to store its
\* message under that conversation and emits no error.
C29_LostRaceUsesTheirs ==
    [][\A t \in Stepped("send-message", "createDm") :
          (\E d \in dms : d.user1Id = UserOf(t.conn) /\ d.user2Id = t.aux)
          => /\ \A e \in NewEvents : e.type # "error"
             /\ \E d \in MatchingDms(UserOf(t.conn), t.aux) :
                   tasks' = GotoWith(t, "createMsg", d.id)]_vars

\* C30: an add-reaction that finds its triple stored, and a remove-reaction
\* that finds its triple gone, leave the stored reactions as they are and emit
\* no 'error' event.
C30_DuplicateAddAndRemoveAreNoOps ==
    [][\A t \in Finished :
          (/\ t.pc = "db"
           /\ \/ t.kind = "add-reaction"
                    /\ ReactionRows(<<t.n, UserOf(t.conn), t.key>>) # {}
              \/ t.kind = "remove-reaction"
                    /\ ReactionRows(<<t.n, UserOf(t.conn), t.key>>) = {})
          => /\ reactions' = reactions
             /\ \A e \in NewEvents : e.type # "error"]_vars

HuddleKinds == {"create-huddle", "join-huddle", "leave-huddle", "end-huddle"}

\* C31: whenever no huddle operation is in progress, a huddle whose status is
\* ended has no participant row without a leave timestamp.
C31_NoActiveRowInEndedHuddle ==
    (\A t \in Running : t.kind \notin HuddleKinds) =>
        \A h \in HuddleIds :
            huddles[h].status = "ended" => getHuddleParticipants(h) = {}

\* C32: the 'message-updated' event of a successful edit reaches every live
\* connection in the room of the message's channel, and for a direct message
\* every live connection of both users of its conversation.
C32_EditReachesGroup ==
    [][\A e \in NewEvents :
          e.type = "message-updated" =>
             \A r \in Stored :
                r.id = e.n =>
                   /\ r.channelId # None => IoTo(r.channelId) \subseteq e.to
                   /\ \A d \in dms :
                         d.id = r.dmId =>
                            {c \in Live : UserOf(c) \in Pair(d)} \subseteq e.to]_vars

\* C33: every user's stored status is one of online, away and offline, and no
\* 'user-status-changed' event carries another value.
C33_StatusIsOneOfThree ==
    /\ \A u \in Users : status[u] \in Statuses
    /\ \A i \in LogIndex :
          log[i].type = "user-status-changed" => log[i].key \in Statuses

\* C34: whenever the last typing event the message input emitted is a
\* typing-start, the input eventually emits a typing-stop.
C34_TypingStartIsStopped ==
    \A c \in TwoConns :
        (view[c].input.emitted = "typing-start")
            ~> (view[c].input.emitted = "typing-stop")

\* C35: once the join-channel and the later leave-channel of connection c1
\* have both been handled, c1 is not in the channel's room.
C35_LeaveAfterJoinWins ==
    (nops = 2 /\ InFlight("join-channel") = {}) =>
        \A ch \in Channels : "c1" \notin InRoom(ch)

\* C36: for every message, each connection is among the recipients of at most
\* one new-message event carrying it, also when the direct-message target is
\* the sender's own user id.
C36_NewMessageAtMostOnce ==
    \A c \in Conns : \A i, j \in LogIndex :
        (/\ log[i].type = "new-message" /\ log[j].type = "new-message"
         /\ log[i].n = log[j].n
         /\ c \in log[i].to /\ c \in log[j].to) => i = j

\* C37: a leave-huddle request from a user who was not an active participant
\* of the huddle when the request was made delivers no user-left-huddle event
\* to any connection and changes no participant row and no huddle.
C37_NonParticipantLeaveIsSilent ==
    [][\A t \in Finished :
          (t.kind = "leave-huddle" /\ t.aux = None) =>
          /\ \A e \in NewEvents : e.type = "user-left-huddle" => e.to = {}
          /\ participants' = participants
          /\ huddles' = huddles]_vars

\* C38: a reaction-added event is broadcast only for an add-reaction request
\* whose upsert created the reaction record; a request that found the record
\* stored broadcasts nothing.
C38_AddedOnlyWhenCreated ==
    [][\A t \in Stepped("add-reaction", "emit") :
          (\E e \in NewEvents : e.type = "reaction-added") => t.aux = "created"]_vars

\* C39: a typing-start or typing-stop event that reaches any connection is
\* addressed either to a user's personal group or to the group of a channel
\* of which the originating user is a member.
C39_TypingOnlyFromMembers ==
    [][\A e \in NewEvents :
          (e.type \in {"user-typing-start", "user-typing-stop"} /\ e.to # {}) =>
             \/ e.key \in Users
             \/ e.key \in Channels /\ canUserAccessChannel(e.user, e.key)]_vars

====
